---- MODULE Spec2Model ----
(***************************************************************************)
(* Point Transformer (ml3d/torch/models/point_transformer.py).             *)
(*                                                                         *)
(* A batch is a concatenation of clouds: `point` holds one coordinate per  *)
(* row (a point on a line stands for the (n, 3) row), `row_splits` the     *)
(* prefix sums that cut it into clouds.  Indices stored in tensors are the *)
(* 0-based indices of the Python code; TLA+ sequences are 1-based, so row  *)
(* j of a tensor is element j + 1 of its sequence.                         *)
(*                                                                         *)
(* Tensors of indices and distances are kept as [n, w, d]: n rows, w       *)
(* columns and the row-major data d, so that cat, view and reshape act as  *)
(* they do in torch.  Feature tensors are kept by their shape and by the   *)
(* input rows each output row is built from.  An operation returns a       *)
(* record whose field err is "none" or the name of the exception raised.   *)
(***************************************************************************)
EXTENDS Integers, Sequences, FiniteSets, TLC

VARIABLES point, row_splits, op, args, res, net, fw

vars == <<point, row_splits, op, args, res, net, fw>>

\* What a call leaves alone.
batchVars == <<point, row_splits, net, fw>>

\* Bounds of the model.
MaxClouds == 2
MaxPts == 3
MaxK == 3
MaxStride == 2
MaxPlanes == 4
MaxShare == 2

----------------------------------------------------------------------------
\* Generic helpers.

Min(a, b) == IF a < b THEN a ELSE b

Range(s) == {s[i] : i \in 1..Len(s)}

RECURSIVE SeqSum(_)
SeqSum(s) == IF Len(s) = 0 THEN 0 ELSE s[1] + SeqSum(Tail(s))

RECURSIVE Flatten(_)
Flatten(ss) == IF Len(ss) = 0 THEN <<>> ELSE ss[1] \o Flatten(Tail(ss))

\* Python's a[lo:hi] on a sequence of rows (0-based, half-open).
Slice(s, lo, hi) == SubSeq(s, lo + 1, hi)

\* Row r (0-based) of a 2-D tensor.
TRow(t, r) == SubSeq(t.d, r * t.w + 1, (r + 1) * t.w)

\* Column i (0-based) of a 2-D tensor: t[:, i].
TCol(t, i) == [r \in 1..t.n |-> t.d[(r - 1) * t.w + i + 1]]

Tensor(n, w, d) == [err |-> "none", n |-> n, w |-> w, d |-> d]

Raise(e) == [err |-> e]

\* torch.cat(ts, 0) of 2-D tensors: an empty list and rows of different
\* widths are errors.
TCat(ts) ==
    IF Len(ts) = 0 THEN Raise("RuntimeError")
    ELSE IF \E i \in 1..Len(ts) : ts[i].w # ts[1].w THEN Raise("RuntimeError")
    ELSE Tensor(SeqSum([i \in 1..Len(ts) |-> ts[i].n]), ts[1].w,
                Flatten([i \in 1..Len(ts) |-> ts[i].d]))

\* t.reshape(-1, w) / t.view(n, w): the element count must fit.
TReshape(t, w) ==
    IF w = 0 \/ (t.n * t.w) % w # 0 THEN Raise("RuntimeError")
    ELSE Tensor((t.n * t.w) \div w, w, t.d)

----------------------------------------------------------------------------
\* Batches.

\* The row_splits of every batch of 1..MaxClouds clouds and at most MaxPts
\* points: non-decreasing, first 0, last n.
RECURSIVE SplitsFrom(_, _)
SplitsFrom(b, last) ==
    IF b = 0 THEN {<<0>>}
    ELSE UNION {{Append(s, last) : s \in SplitsFrom(b - 1, prev)} :
                prev \in 0..last}

RowSplits == UNION {SplitsFrom(b, n) : b \in 1..MaxClouds, n \in 0..MaxPts}

NumClouds(rs) == Len(rs) - 1

Count(rs, i) == rs[i + 1] - rs[i]

\* The cloud (1-based) that holds row j (0-based) under rs.
CloudOf(rs, j) == CHOOSE i \in 1..NumClouds(rs) : rs[i] <= j /\ j < rs[i + 1]

\* The point arrays drawn for a batch: the clouds side by side on a line,
\* every cloud in its own frame (transform centres each cloud on its own
\* origin, so clouds overlap), and every cloud in its own frame, reversed.
Layouts(rs) ==
    LET n == rs[Len(rs)]
    IN {[j \in 1..n |-> j - 1],
        [j \in 1..n |-> (j - 1) - rs[CloudOf(rs, j - 1)]],
        [j \in 1..n |-> rs[CloudOf(rs, j - 1) + 1] - j]}

ValidBatch(p, rs) ==
    /\ Len(rs) >= 2
    /\ rs[1] = 0
    /\ \A i \in 1..NumClouds(rs) : rs[i] <= rs[i + 1]
    /\ rs[Len(rs)] = Len(p)

----------------------------------------------------------------------------
\* open3d.core.nns.NearestNeighborSearch, as knn_batch uses it.

Dist2(a, b) == (a - b) * (a - b)

\* The local (0-based) indices of the cnt points of P nearest to x, nearest
\* first, ties by index.
RECURSIVE Nearest(_, _, _, _)
Nearest(P, x, chosen, cnt) ==
    IF cnt = 0 THEN chosen
    ELSE LET cand == {j \in 1..Len(P) : (j - 1) \notin Range(chosen)}
             best == CHOOSE j \in cand : \A l \in cand :
                        \/ Dist2(P[j], x) < Dist2(P[l], x)
                        \/ Dist2(P[j], x) = Dist2(P[l], x) /\ j <= l
         IN Nearest(P, x, Append(chosen, best - 1), cnt - 1)

\* nns.knn_search(Q, k) on the index built over P: one row per query, each
\* of min(k, |P|) columns.  An index over no points either raises or
\* answers with no columns (emptyRaises).
knn_search(P, Q, k, emptyRaises) ==
    IF Len(P) = 0 /\ emptyRaises THEN [err |-> "RuntimeError"]
    ELSE LET w == Min(k, Len(P))
             rows == [q \in 1..Len(Q) |-> Nearest(P, Q[q], <<>>, w)]
         IN [err |-> "none",
             idx |-> Tensor(Len(Q), w, Flatten(rows)),
             dist |-> Tensor(Len(Q), w,
                        Flatten([q \in 1..Len(Q) |->
                            [j \in 1..w |-> Dist2(P[rows[q][j] + 1], Q[q])]]))]

\* The indices left local to their cloud.
AddOffsetNone(t, off) == t

\* idx += points_row_splits[i]
AddOffset(t, off) == Tensor(t.n, t.w, [j \in 1..Len(t.d) |-> t.d[j] + off])

\* The loop of knn_batch over the clouds i..b (1-based), given what the
\* earlier iterations left: the lists idxs and dists and the count of
\* searches done.  Reading row_splits past its end raises IndexError.
RECURSIVE KnnLoop(_, _, _, _, _, _, _, _)
KnnLoop(points, queries, k, prs, qrs, emptyRaises, i, acc) ==
    IF i > Len(prs) - 1 THEN acc
    ELSE IF i + 1 > Len(qrs)
    THEN [acc EXCEPT !.err = "IndexError"]
    ELSE LET curr_points == Slice(points, prs[i], prs[i + 1])
             nn == knn_search(curr_points,
                              Slice(queries, qrs[i], qrs[i + 1]), k,
                              emptyRaises)
         IN IF nn.err # "none"
            THEN [acc EXCEPT !.err = nn.err]
            ELSE KnnLoop(points, queries, k, prs, qrs, emptyRaises, i + 1,
                         [acc EXCEPT !.searches = @ + 1,
                                     !.idxs = Append(@, AddOffset(nn.idx, prs[i])),
                                     !.dists = Append(@, nn.dist)])

KnnStart == [err |-> "none", searches |-> 0, idxs |-> <<>>, dists |-> <<>>]

\* The body of knn_batch after its assertion.
KnnBody(points, queries, k, prs, qrs, emptyRaises) ==
    LET acc == KnnLoop(points, queries, k, prs, qrs, emptyRaises, 1, KnnStart)
    IN IF acc.err # "none"
       THEN [err |-> acc.err, searches |-> acc.searches]
       ELSE LET idx == TCat(acc.idxs)
                dist == TCat(acc.dists)
            IN IF idx.err # "none"
               THEN [err |-> idx.err, searches |-> acc.searches]
               ELSE [err |-> "none", searches |-> acc.searches,
                     idx |-> idx, dist |-> dist]

\* knn_batch entered without the check of the two batch sizes.
knn_batch_unchecked(points, queries, k, prs, qrs, emptyRaises) ==
    KnnBody(points, queries, k, prs, qrs, emptyRaises)

\* knn_batch(points, queries, k, points_row_splits, queries_row_splits):
\* the indices (and, with return_distances, the distances) of every query's
\* neighbours.
knn_batch(points, queries, k, prs, qrs, emptyRaises) ==
    IF Len(prs) # Len(qrs)
    THEN [err |-> "AssertionError", searches |-> 0]
    ELSE KnnBody(points, queries, k, prs, qrs, emptyRaises)

----------------------------------------------------------------------------
\* furthest_point_sample_v2 (..utils.pointnet.pointnet2_utils): for every
\* cloud i, new_row_splits[i+1] - new_row_splits[i] indices of points of
\* cloud i, the first point of the cloud and then, repeatedly, the point
\* furthest from the ones already taken (ties by index).

MinDistTo(P, j, chosen) ==
    LET ds == {Dist2(P[j], P[c + 1]) : c \in Range(chosen)}
    IN CHOOSE d \in ds : \A e \in ds : d <= e

RECURSIVE Furthest(_, _, _)
Furthest(P, chosen, cnt) ==
    IF cnt = 0 THEN chosen
    ELSE IF Len(chosen) = 0 THEN Furthest(P, <<0>>, cnt - 1)
    ELSE LET best == CHOOSE j \in 1..Len(P) : \A l \in 1..Len(P) :
                        \/ MinDistTo(P, j, chosen) > MinDistTo(P, l, chosen)
                        \/ MinDistTo(P, j, chosen) = MinDistTo(P, l, chosen) /\ j <= l
         IN Furthest(P, Append(chosen, best - 1), cnt - 1)

furthest_point_sample_v2(p, rs, new_rs) ==
    Flatten([i \in 1..NumClouds(rs) |->
        LET local == Furthest(Slice(p, rs[i], rs[i + 1]), <<>>,
                              Min(Count(new_rs, i), Count(rs, i)))
        IN [j \in 1..Len(local) |-> local[j] + rs[i]]])

\* new_row_splits with the counts rounded up.
NewRowSplitsCeil(rs, stride) ==
    [i \in 1..Len(rs) |->
        SeqSum([c \in 1..(i - 1) |-> (Count(rs, c) + stride - 1) \div stride])]

\* The loop of TransitionDown.forward that builds new_row_splits.
NewRowSplits(rs, stride) ==
    [i \in 1..Len(rs) |->
        SeqSum([c \in 1..(i - 1) |-> Count(rs, c) \div stride])]

----------------------------------------------------------------------------
\* queryandgroup(nsample, points, queries, feat, None, points_row_splits,
\* queries_row_splits, use_xyz), feat of c channels: the features (and,
\* with use_xyz, the relative positions) of every query's neighbours.
\* src[q] lists the rows of points that row q is gathered from.
queryandgroup(nsample, points, queries, c, prs, qrs, use_xyz, emptyRaises) ==
    LET nn == knn_batch(points, queries, nsample, prs, qrs, emptyRaises)
        m == Len(queries)
    IN IF nn.err # "none" THEN nn
       ELSE IF nn.idx.n * nn.idx.w # m * nsample
       THEN [err |-> "RuntimeError", searches |-> nn.searches]
       ELSE LET idx == Tensor(m, nsample, nn.idx.d)
            IN [err |-> "none", searches |-> nn.searches,
                n |-> m, k |-> nsample,
                ch |-> IF use_xyz THEN 3 + c ELSE c,
                src |-> idx,
                grouped_xyz |-> Tensor(m, nsample,
                    [j \in 1..(m * nsample) |->
                        points[idx.d[j] + 1] - queries[((j - 1) \div nsample) + 1]])]

\* The width idx and dist are reshaped to in interpolation.
InterpWidth == 3

\* interpolation(points, queries, feat, points_row_splits,
\* queries_row_splits, k): row q of the result is a sum of terms, each
\* the feature row src weighted by 1/(num + eps) over the sum of
\* 1/(d + eps) for d in den.
interpolation(points, queries, c, prs, qrs, k, emptyRaises) ==
    LET nn == knn_batch(points, queries, k, prs, qrs, emptyRaises)
        m == Len(queries)
    IN IF nn.err # "none" THEN nn
       ELSE LET idx == TReshape(nn.idx, InterpWidth)
                dist == TReshape(nn.dist, InterpWidth)
            IN IF idx.err # "none"
               THEN [err |-> idx.err, searches |-> nn.searches]
               \* new_feat += feat[idx[:, i]] * weight[:, i]: the rows
               \* must be those of new_feat, or one row to broadcast.
               ELSE IF idx.n # m /\ idx.n # 1
               THEN [err |-> "RuntimeError", searches |-> nn.searches]
               \* idx[:, i] for i >= 3
               ELSE IF k > InterpWidth
               THEN [err |-> "IndexError", searches |-> nn.searches]
               ELSE [err |-> "none", searches |-> nn.searches,
                     n |-> m, ch |-> c,
                     terms |-> [q \in 1..m |->
                        LET r == IF idx.n = m THEN q - 1 ELSE 0
                        IN [i \in 1..k |->
                              [src |-> TRow(idx, r)[i],
                               num |-> TRow(dist, r)[i],
                               den |-> TRow(dist, r)]]]]

----------------------------------------------------------------------------
\* The shapes of what the search functions return.  A feature tensor is
\* kept as [n, k, ch]: n rows, k neighbours per row (1 for a 2-D tensor)
\* and ch channels.

Feat(n, k, ch) == [err |-> "none", n |-> n, k |-> k, ch |-> ch]

\* knn_batch: the shape (n, w) of idx and dist.
KnnShape(prs, qrs, k, emptyRaises) ==
    IF Len(prs) # Len(qrs)
    THEN [err |-> "AssertionError", searches |-> 0]
    ELSE LET b == NumClouds(prs)
             empty == {i \in 1..b : Count(prs, i) = 0}
         IN IF emptyRaises /\ empty # {}
            THEN [err |-> "RuntimeError",
                  searches |-> (CHOOSE i \in empty : \A l \in empty : i <= l) - 1]
            ELSE IF b = 0 \/ \E i \in 1..b :
                        Min(k, Count(prs, i)) # Min(k, Count(prs, 1))
            THEN [err |-> "RuntimeError", searches |-> b]
            ELSE [err |-> "none", searches |-> b,
                  n |-> SeqSum([i \in 1..b |-> Count(qrs, i)]),
                  w |-> Min(k, Count(prs, 1))]

\* queryandgroup with one row per searched point instead of per query.
QueryAndGroupPerPoint(nsample, m, c, prs, qrs, use_xyz, emptyRaises) ==
    LET nn == KnnShape(prs, qrs, nsample, emptyRaises)
    IN IF nn.err # "none" THEN Raise(nn.err)
       ELSE IF nn.n * nn.w # m * nsample THEN Raise("RuntimeError")
       ELSE Feat(prs[Len(prs)], nsample, IF use_xyz THEN 3 + c ELSE c)

\* queryandgroup on m queries and features of c channels.
QueryAndGroupShape(nsample, m, c, prs, qrs, use_xyz, emptyRaises) ==
    LET nn == KnnShape(prs, qrs, nsample, emptyRaises)
    IN IF nn.err # "none" THEN Raise(nn.err)
       ELSE IF nn.n * nn.w # m * nsample THEN Raise("RuntimeError")
       ELSE Feat(m, nsample, IF use_xyz THEN 3 + c ELSE c)

\* interpolation on m queries and features of c channels.
InterpolationShape(m, c, prs, qrs, k, emptyRaises) ==
    LET nn == KnnShape(prs, qrs, k, emptyRaises)
    IN IF nn.err # "none" THEN Raise(nn.err)
       ELSE IF (nn.n * nn.w) % InterpWidth # 0 THEN Raise("RuntimeError")
       ELSE IF (nn.n * nn.w) \div InterpWidth \notin {m, 1}
       THEN Raise("RuntimeError")
       ELSE IF k > InterpWidth THEN Raise("IndexError")
       ELSE Feat(m, 1, c)

----------------------------------------------------------------------------
\* torch.nn layers, by what they ask of and do to a shape.  An error that
\* reaches a layer passes through it.

\* nn.Linear(in, out)
Linear(t, in, out) ==
    IF t.err # "none" THEN t
    ELSE IF t.ch # in THEN Raise("RuntimeError")
    ELSE [t EXCEPT !.ch = out]

\* nn.BatchNorm1d(c) on (n, c) or, transposed, on (n, c, k): in training it
\* refuses a single value per channel.
BatchNorm1d(t, c, training) ==
    IF t.err # "none" THEN t
    ELSE IF t.ch # c THEN Raise("RuntimeError")
    ELSE IF training /\ t.n * t.k = 1 THEN Raise("ValueError")
    ELSE t

\* nn.MaxPool1d(nsample) on (m, c, k), then squeeze(-1)
MaxPool1d(t, nsample) ==
    IF t.err # "none" THEN t
    ELSE IF t.k < nsample THEN Raise("RuntimeError")
    ELSE [t EXCEPT !.k = t.k \div nsample]

----------------------------------------------------------------------------
\* The modules.  A pxo is [point, feat, row_splits]; where only shapes
\* matter the points are given by their number np.

\* Transformer.forward with the view into share_planes groups left out:
\* the values taken as one group.
TransformerUngrouped(cfg, np, feat, rs, training, emptyRaises) ==
    LET fk == QueryAndGroupShape(cfg.nsample, np, cfg.out_planes, rs, rs,
                                 TRUE, emptyRaises)
    IN IF fk.err # "none" THEN fk
       ELSE [err |-> "none", n |-> np, k |-> 1, ch |-> cfg.out_planes,
             w_width |-> cfg.out_planes \div cfg.share_planes, groups |-> 1,
             group_width |-> cfg.out_planes]

\* Transformer(in_planes, out_planes, share_planes, nsample).forward
TransformerForward(cfg, np, feat, rs, training, emptyRaises) ==
    LET mid_planes == cfg.out_planes
        out == cfg.out_planes
        s == cfg.share_planes
        feat_q == Linear(feat, cfg.in_planes, mid_planes)
        feat_k == QueryAndGroupShape(cfg.nsample, np, mid_planes, rs, rs,
                                     TRUE, emptyRaises)
        feat_v == QueryAndGroupShape(cfg.nsample, np, out, rs, rs,
                                     FALSE, emptyRaises)
        point_r == Linear(BatchNorm1d(Linear(Feat(np, cfg.nsample, 3), 3, 3),
                                      3, training), 3, out)
        w == Linear(BatchNorm1d(
                 Linear(BatchNorm1d(Feat(np, cfg.nsample, mid_planes),
                                    mid_planes, training),
                        mid_planes, mid_planes \div s),
                 mid_planes \div s, training),
               out \div s, out \div s)
    IN IF feat_q.err # "none" THEN feat_q
       ELSE IF feat_k.err # "none" THEN feat_k
       ELSE IF feat_v.err # "none" THEN feat_v
       ELSE IF point_r.err # "none" THEN point_r
       ELSE IF w.err # "none" THEN w
       \* (feat_v + point_r).view(n, nsample, s, c // s)
       ELSE IF np * cfg.nsample * out # np * cfg.nsample * s * (out \div s)
       THEN Raise("RuntimeError")
       ELSE [err |-> "none", n |-> np, k |-> 1, ch |-> out,
             w_width |-> w.ch, groups |-> s, group_width |-> out \div s]

\* Bottleneck.expansion
Expansion == 1

\* Bottleneck(in_planes, planes, share_planes, nsample).forward: the
\* features returned.
BottleneckFeat(cfg, np, feat, rs, training, emptyRaises) ==
    LET f1 == BatchNorm1d(Linear(feat, cfg.in_planes, cfg.planes),
                          cfg.planes, training)
        t == IF f1.err # "none" THEN f1
             ELSE TransformerForward(
                    [in_planes |-> cfg.planes, out_planes |-> cfg.planes,
                     share_planes |-> cfg.share_planes, nsample |-> cfg.nsample],
                    np, f1, rs, training, emptyRaises)
        f2 == IF t.err # "none" THEN t
              ELSE BatchNorm1d(Feat(t.n, 1, t.ch), cfg.planes, training)
        f3 == BatchNorm1d(Linear(f2, cfg.planes, cfg.planes * Expansion),
                          cfg.planes * Expansion, training)
    IN IF f3.err # "none" THEN f3
       \* feat += identity
       ELSE IF feat.ch # f3.ch /\ feat.ch # 1 THEN Raise("RuntimeError")
       ELSE f3

\* TransitionDown(in_planes, out_planes, stride, nsample).forward: the
\* number of points, the features and the row splits returned.
TransitionDownShape(cfg, np, feat, rs, training, emptyRaises) ==
    IF cfg.stride # 1
    THEN LET new_row_splits == NewRowSplits(rs, cfg.stride)
             m == new_row_splits[Len(new_row_splits)]
             g == QueryAndGroupShape(cfg.nsample, m, feat.ch, rs,
                                     new_row_splits, TRUE, emptyRaises)
             l == MaxPool1d(BatchNorm1d(
                        Linear(g, 3 + cfg.in_planes, cfg.out_planes),
                        cfg.out_planes, training), cfg.nsample)
         IN IF l.err # "none" THEN l
            ELSE [err |-> "none", np |-> m, feat |-> l,
                  row_splits |-> new_row_splits]
    ELSE LET l == BatchNorm1d(Linear(feat, cfg.in_planes, cfg.out_planes),
                              cfg.out_planes, training)
         IN IF l.err # "none" THEN l
            ELSE [err |-> "none", np |-> np, feat |-> l, row_splits |-> rs]

\* The first np rows in place of the sampled ones.
GatherFirst(rows, idx) == SubSeq(rows, 1, Len(idx))

\* point[idx.long(), :]
GatherRows(rows, idx) == [j \in 1..Len(idx) |-> rows[idx[j] + 1]]

\* TransitionDown.forward on a pxo with its points.
TransitionDownForward(cfg, pxo, training, emptyRaises) ==
    LET sh == TransitionDownShape(cfg, Len(pxo.point), pxo.feat,
                                  pxo.row_splits, training, emptyRaises)
    IN IF sh.err # "none" THEN sh
       ELSE [err |-> "none",
             point |-> IF cfg.stride # 1
                       THEN GatherRows(pxo.point,
                                furthest_point_sample_v2(pxo.point,
                                    pxo.row_splits, sh.row_splits))
                       ELSE pxo.point,
             feat |-> sh.feat,
             row_splits |-> sh.row_splits]

\* Bottleneck.forward on a pxo with its points.
BottleneckForward(cfg, pxo, training, emptyRaises) ==
    LET f == BottleneckFeat(cfg, Len(pxo.point), pxo.feat, pxo.row_splits,
                            training, emptyRaises)
    IN IF f.err # "none" THEN f
       ELSE [err |-> "none", point |-> pxo.point, feat |-> f,
             row_splits |-> pxo.row_splits]

\* The rows TransitionUp concatenates in single-input mode, with the mean
\* taken over the whole batch.
HeadRowsGlobal(n, rs) ==
    [j \in 1..rs[Len(rs)] |->
        [own |-> j - 1, rows |-> 0..(n - 1), count |-> n]]

\* The rows TransitionUp concatenates in single-input mode: for every
\* cloud i and every row of feat[start_i:end_i], the row itself and
\* linear2 of the sum of the rows of that slice divided by count.
HeadRows(n, rs) ==
    Flatten([i \in 1..NumClouds(rs) |->
        LET start_i == rs[i]
            end_i == rs[i + 1]
            count == rs[i + 1] - rs[i]
        IN [r \in 1..count |->
              [own |-> start_i + r - 1,
               rows |-> {x \in start_i..(end_i - 1) : x < n},
               count |-> count]]])

\* TransitionUp(in_planes, None).forward(pxo1): the shape returned.
TransitionUpHeadShape(cfg, feat, rs, training) ==
    LET summary == Linear(Feat(1, 1, feat.ch), cfg.in_planes, cfg.in_planes)
        l == BatchNorm1d(Linear(Feat(rs[Len(rs)], 1, 2 * feat.ch),
                                2 * cfg.in_planes, cfg.in_planes),
                         cfg.in_planes, training)
    IN \* torch.cat(feat_tmp, 0) of no cloud
       IF NumClouds(rs) = 0 THEN Raise("RuntimeError")
       ELSE IF summary.err # "none" THEN summary
       ELSE l

\* TransitionUp(in_planes, None).forward(pxo1)
TransitionUpHead(cfg, feat, rs, training) ==
    LET l == TransitionUpHeadShape(cfg, feat, rs, training)
    IN IF l.err # "none" THEN l
       ELSE [err |-> "none", n |-> l.n, k |-> 1, ch |-> l.ch,
             rows |-> HeadRows(feat.n, rs)]

\* The neighbours interpolation is asked for by TransitionUp.
InterpK == 3

\* TransitionUp(in_planes, out_planes).forward(pxo1, pxo2)
TransitionUpFuse(cfg, np1, feat_1, rs1, feat_2, rs2, training, emptyRaises) ==
    LET a == BatchNorm1d(Linear(feat_1, cfg.out_planes, cfg.out_planes),
                         cfg.out_planes, training)
        l2 == BatchNorm1d(Linear(feat_2, cfg.in_planes, cfg.out_planes),
                          cfg.out_planes, training)
        i == IF l2.err # "none" THEN l2
             ELSE InterpolationShape(np1, l2.ch, rs2, rs1, InterpK,
                                     emptyRaises)
    IN IF a.err # "none" THEN a
       ELSE IF i.err # "none" THEN i
       ELSE IF a.n # i.n /\ a.n # 1 /\ i.n # 1 THEN Raise("RuntimeError")
       ELSE Feat(IF a.n = 1 THEN i.n ELSE a.n, 1, cfg.out_planes)

\* TransitionUp.forward(pxo1, pxo2) on pxos with their points: row q of
\* the result is linear1 of row own of feat_1 plus the terms interpolation
\* gives query q; searched and queried are the row splits of the points
\* interpolation searches and of those it searches for.
TransitionUpForward(cfg, pxo1, pxo2, training, emptyRaises) ==
    LET sh == TransitionUpFuse(cfg, Len(pxo1.point), pxo1.feat,
                               pxo1.row_splits, pxo2.feat, pxo2.row_splits,
                               training, emptyRaises)
        it == interpolation(pxo2.point, pxo1.point, cfg.out_planes,
                            pxo2.row_splits, pxo1.row_splits, InterpK,
                            emptyRaises)
    IN IF sh.err # "none" THEN sh
       ELSE [err |-> "none", n |-> sh.n, k |-> 1, ch |-> sh.ch,
             searched |-> pxo2.row_splits, queried |-> pxo1.row_splits,
             rows |-> [q \in 1..sh.n |->
                         [own |-> q - 1, terms |-> it.terms[q]]]]

----------------------------------------------------------------------------
\* The calls checked.  A call draws its arguments from the batch of the
\* state: the batch itself (the fine level), the level a stride s makes of
\* it (the coarse level), and, for the queries, the same batches with a
\* cloud dropped or added.

\* PointTransformer.__init__: c, the channels of the input features.
DefaultC == 6

Batch(p, rs) == [point |-> p, row_splits |-> rs]

Level(p, rs, s) ==
    LET new_rs == NewRowSplits(rs, s)
    IN Batch(GatherRows(p, furthest_point_sample_v2(p, rs, new_rs)), new_rs)

Mismatches == {"same", "drop", "extra"}

Vary(B, mism) ==
    LET rs == B.row_splits
    IN CASE mism = "same" -> B
         [] mism = "drop" -> Batch(Slice(B.point, 0, rs[Len(rs) - 1]),
                                   SubSeq(rs, 1, Len(rs) - 1))
         [] mism = "extra" -> Batch(B.point, Append(rs, rs[Len(rs)]))

\* The (points, queries) pairs the callers make: TransitionDown searches the
\* fine level for the coarse points, TransitionUp the coarse level for the
\* fine points, Transformer a level for its own points (s = 1).
SearchArgs(s, dir, mism, k, e) ==
    LET fine == Batch(point, row_splits)
        coarse == Level(point, row_splits, s)
        P == IF dir = "down" THEN fine ELSE coarse
        Q == Vary(IF dir = "down" THEN coarse ELSE fine, mism)
    IN [points |-> P.point, prs |-> P.row_splits,
        queries |-> Q.point, qrs |-> Q.row_splits,
        k |-> k, emptyRaises |-> e]

HasEmptyCloud(rs) == \E i \in 1..NumClouds(rs) : Count(rs, i) = 0

\* What the library may do with an index over no points.
EmptyChoices(s, dir) ==
    IF HasEmptyCloud(IF dir = "down" THEN row_splits
                     ELSE NewRowSplits(row_splits, s))
    THEN BOOLEAN ELSE {FALSE}

Init ==
    /\ row_splits \in RowSplits
    /\ point \in Layouts(row_splits)
    /\ op = "init"
    /\ args = [k |-> 0]
    /\ res = [err |-> "none"]
    /\ net = [c |-> 0]
    /\ fw = [pc |-> "idle"]

CallKnnBatch ==
    /\ op = "init"
    /\ \E s \in 1..MaxStride, dir \in {"down", "up"}, mism \in Mismatches,
          k \in 1..MaxK :
       \E e \in EmptyChoices(s, dir) :
          LET a == SearchArgs(s, dir, mism, k, e)
          IN /\ args' = a
             /\ res' = knn_batch(a.points, a.queries, a.k, a.prs, a.qrs,
                                 a.emptyRaises)
    /\ op' = "knn_batch"
    /\ UNCHANGED batchVars

CallQueryAndGroup ==
    /\ op = "init"
    /\ \E s \in 1..MaxStride, dir \in {"down", "up"}, mism \in Mismatches,
          k \in 1..MaxK, use_xyz \in BOOLEAN :
       \E e \in EmptyChoices(s, dir) :
          LET a == SearchArgs(s, dir, mism, k, e)
          IN /\ args' = [use_xyz |-> use_xyz] @@ a
             /\ res' = queryandgroup(a.k, a.points, a.queries, DefaultC,
                                     a.prs, a.qrs, use_xyz, a.emptyRaises)
    /\ op' = "queryandgroup"
    /\ UNCHANGED batchVars

CallInterpolation ==
    /\ op = "init"
    /\ \E s \in 1..MaxStride, dir \in {"down", "up"}, mism \in Mismatches,
          k \in 1..MaxK :
       \E e \in EmptyChoices(s, dir) :
          LET a == SearchArgs(s, dir, mism, k, e)
          IN /\ args' = a
             /\ res' = interpolation(a.points, a.queries, DefaultC,
                                     a.prs, a.qrs, a.k, a.emptyRaises)
    /\ op' = "interpolation"
    /\ UNCHANGED batchVars

NextSearch == CallKnnBatch \/ CallQueryAndGroup \/ CallInterpolation

SpecSearch == Init /\ [][NextSearch]_vars

----------------------------------------------------------------------------
\* Properties of the search functions (SpecSearch).

SearchOps == {"knn_batch", "queryandgroup", "interpolation"}

SameBatchCount == Len(args.prs) = Len(args.qrs)

QueryRows == 0..(Len(args.queries) - 1)

\* What the search of query row q's own cloud, alone, answers for q, as
\* global indices, and the distances that go with them.
OwnCloud(q) == CloudOf(args.qrs, q)

OwnNeighbours(q) ==
    LET i == OwnCloud(q)
        nn == knn_search(Slice(args.points, args.prs[i], args.prs[i + 1]),
                         <<args.queries[q + 1]>>, args.k, FALSE)
    IN [idx |-> [j \in 1..nn.idx.w |-> nn.idx.d[j] + args.prs[i]],
        dist |-> nn.dist.d]

\* C1: knn_batch never returns an index outside the query point's own cloud
\* partition: every neighbour index of a query row of cloud i lies in
\* [points_row_splits[i], points_row_splits[i+1]), and row q of the result
\* is the answer for query row q.
C1_KnnStaysInCloud ==
    (op = "knn_batch" /\ res.err = "none") =>
        /\ res.idx.n = Len(args.queries)
        /\ res.dist.n = Len(args.queries)
        /\ \A q \in QueryRows :
              /\ \A v \in Range(TRow(res.idx, q)) :
                    /\ args.prs[OwnCloud(q)] <= v
                    /\ v < args.prs[OwnCloud(q) + 1]
              /\ TRow(res.idx, q) = OwnNeighbours(q).idx
              /\ TRow(res.dist, q) = OwnNeighbours(q).dist

\* A search of two clouds in which a query of the second cloud has a point
\* of the first cloud as near as its own nearest.
C1_Witness ==
    /\ op = "knn_batch"
    /\ res.err = "none"
    /\ NumClouds(args.prs) = 2
    /\ args.k >= 2
    /\ \E q \in QueryRows :
          /\ OwnCloud(q) = 2
          /\ \E j \in 1..args.prs[2] :
                Dist2(args.points[j], args.queries[q + 1]) <= TRow(res.dist, q)[1]

\* C4: a call with row splits of different lengths fails on the assertion,
\* before any neighbour search and with no result, also when it is made
\* through queryandgroup or interpolation.
C4_MismatchFailsFirst ==
    (op \in SearchOps /\ ~SameBatchCount) =>
        /\ res.err = "AssertionError"
        /\ res.searches = 0

C4_Witness ==
    /\ op = "interpolation"
    /\ Len(args.prs) > Len(args.qrs)
    /\ Len(args.queries) > 0
    /\ res.err = "AssertionError"

\* A cloud of fewer points than the neighbours asked for.
ShortCloud ==
    \E i \in 1..NumClouds(args.prs) : Count(args.prs, i) < args.k

\* The result of a call that used min(k, cloud size) neighbours for every
\* query.
ClampedResult ==
    /\ res.n = Len(args.queries)
    /\ op = "queryandgroup" =>
          \A q \in QueryRows : TRow(res.src, q) = OwnNeighbours(q).idx
    /\ op = "interpolation" =>
          \A q \in QueryRows :
             res.terms[q + 1] =
                [i \in 1..Len(OwnNeighbours(q).idx) |->
                    [src |-> OwnNeighbours(q).idx[i],
                     num |-> OwnNeighbours(q).dist[i],
                     den |-> OwnNeighbours(q).dist]]

\* C7: with a cloud of fewer points than k, queryandgroup and interpolation
\* either raise or use min(k, cloud size) neighbours; they never return a
\* result built from a short, reshaped or misaligned neighbour list.
C7_ShortCloudOnePolicy ==
    (op \in {"queryandgroup", "interpolation"} /\ SameBatchCount /\ ShortCloud)
        => (res.err # "none" \/ ClampedResult)

\* C10: for every k >= 1, on clouds of at least k points, interpolation
\* returns one row per query, row q the weighted sum of the features of
\* the k neighbours of query q, weighted by q's own k distances.
C10_InterpolationAnyK ==
    (op = "interpolation" /\ SameBatchCount /\ ~ShortCloud)
        => (res.err = "none" /\ ClampedResult)

\* The same, for the default k only.
InterpolationDefaultK ==
    (op = "interpolation" /\ SameBatchCount /\ ~ShortCloud
        /\ args.k = InterpWidth)
        => (res.err = "none" /\ ClampedResult)

----------------------------------------------------------------------------
\* The modules called on the batch of the state (SpecLayer).

Planes == 1..MaxPlanes

Pxo(p, c, rs) == [point |-> p, feat |-> Feat(Len(p), 1, c), row_splits |-> rs]

EmptyChoicesOf(rs) == IF HasEmptyCloud(rs) THEN BOOLEAN ELSE {FALSE}

CallTransitionDown ==
    /\ op = "init"
    /\ \E stride \in 1..MaxStride, nsample \in 1..MaxK,
          in_planes \in Planes, out_planes \in Planes,
          training \in BOOLEAN, e \in EmptyChoicesOf(row_splits) :
          LET cfg == [in_planes |-> in_planes, out_planes |-> out_planes,
                      stride |-> stride, nsample |-> nsample]
              pxo == Pxo(point, in_planes, row_splits)
          IN /\ args' = [cfg |-> cfg, pxo |-> pxo, training |-> training,
                         emptyRaises |-> e]
             /\ res' = TransitionDownForward(cfg, pxo, training, e)
    /\ op' = "TransitionDown"
    /\ UNCHANGED batchVars

CallTransformer ==
    /\ op = "init"
    /\ \E nsample \in 1..MaxK, in_planes \in Planes, out_planes \in Planes,
          share_planes \in 1..MaxShare,
          training \in BOOLEAN, e \in EmptyChoicesOf(row_splits) :
          LET cfg == [in_planes |-> in_planes, out_planes |-> out_planes,
                      share_planes |-> share_planes, nsample |-> nsample]
              pxo == Pxo(point, in_planes, row_splits)
          IN /\ args' = [cfg |-> cfg, pxo |-> pxo, training |-> training,
                         emptyRaises |-> e]
             /\ res' = TransformerForward(cfg, Len(point), pxo.feat,
                                          row_splits, training, e)
    /\ op' = "Transformer"
    /\ UNCHANGED batchVars

CallBottleneck ==
    /\ op = "init"
    /\ \E nsample \in 1..MaxK, in_planes \in Planes, planes \in Planes,
          share_planes \in 1..MaxShare,
          training \in BOOLEAN, e \in EmptyChoicesOf(row_splits) :
          LET cfg == [in_planes |-> in_planes, planes |-> planes,
                      share_planes |-> share_planes, nsample |-> nsample]
              pxo == Pxo(point, in_planes, row_splits)
          IN /\ args' = [cfg |-> cfg, pxo |-> pxo, training |-> training,
                         emptyRaises |-> e]
             /\ res' = BottleneckForward(cfg, pxo, training, e)
    /\ op' = "Bottleneck"
    /\ UNCHANGED batchVars

\* TransitionUp.forward(pxo1): pxo2 is None.
CallTransitionUpHead ==
    /\ op = "init"
    /\ \E in_planes \in Planes, training \in BOOLEAN :
          LET cfg == [in_planes |-> in_planes]
              pxo == Pxo(point, in_planes, row_splits)
          IN /\ args' = [cfg |-> cfg, pxo |-> pxo, training |-> training]
             /\ res' = TransitionUpHead(cfg, pxo.feat, row_splits, training)
    /\ op' = "TransitionUpHead"
    /\ UNCHANGED batchVars

\* The row splits of the levels below rs: the same clouds, each with no
\* more points than it has under rs.
CoarseSplits(rs) ==
    {new \in RowSplits :
        /\ Len(new) = Len(rs)
        /\ \A i \in 1..NumClouds(rs) : Count(new, i) <= Count(rs, i)}

\* The level new_rs makes of a batch.
LevelOf(p, rs, new_rs) ==
    Batch(GatherRows(p, furthest_point_sample_v2(p, rs, new_rs)), new_rs)

\* TransitionUp.forward(pxo1, pxo2): pxo1 the batch, pxo2 a level below
\* it (the levels the strides make of it among them).
CallTransitionUpFuse ==
    /\ op = "init"
    /\ \E new_rs \in CoarseSplits(row_splits), in_planes \in Planes,
          out_planes \in Planes, training \in BOOLEAN :
       \E e \in EmptyChoicesOf(new_rs) :
          LET cfg == [in_planes |-> in_planes, out_planes |-> out_planes]
              coarse == LevelOf(point, row_splits, new_rs)
              pxo == Pxo(point, out_planes, row_splits)
              pxo2 == Pxo(coarse.point, in_planes, coarse.row_splits)
          IN /\ args' = [cfg |-> cfg, pxo |-> pxo, pxo2 |-> pxo2,
                         training |-> training, emptyRaises |-> e]
             /\ res' = TransitionUpForward(cfg, pxo, pxo2, training, e)
    /\ op' = "TransitionUpFuse"
    /\ UNCHANGED batchVars

NextLayer ==
    \/ CallTransitionDown
    \/ CallTransformer
    \/ CallBottleneck
    \/ CallTransitionUpHead
    \/ CallTransitionUpFuse

SpecLayer == Init /\ [][NextLayer]_vars

\* The shapes the modules are checked on are those of the search
\* functions: same error, same number of searches, same rows, columns and
\* channels.
ShapesAgree ==
    /\ op = "knn_batch" =>
          LET sh == KnnShape(args.prs, args.qrs, args.k, args.emptyRaises)
          IN /\ sh.err = res.err
             /\ sh.searches = res.searches
             /\ res.err = "none" => (sh.n = res.idx.n /\ sh.w = res.idx.w)
    /\ op = "queryandgroup" =>
          LET sh == QueryAndGroupShape(args.k, Len(args.queries), DefaultC,
                                       args.prs, args.qrs, args.use_xyz,
                                       args.emptyRaises)
          IN /\ sh.err = res.err
             /\ res.err = "none" =>
                   (sh.n = res.n /\ sh.k = res.k /\ sh.ch = res.ch)
    /\ op = "interpolation" =>
          LET sh == InterpolationShape(Len(args.queries), DefaultC, args.prs,
                                       args.qrs, args.k, args.emptyRaises)
          IN /\ sh.err = res.err
             /\ res.err = "none" => (sh.n = res.n /\ sh.ch = res.ch)

----------------------------------------------------------------------------
\* Properties of the modules (SpecLayer).

Returned(o) == op = o /\ res.err = "none"

Last(rs) == rs[Len(rs)]

\* C2: TransitionDown.forward with stride 1 returns the input points and
\* row_splits unchanged; with stride s > 1 the row_splits returned have as
\* many entries as the input, start at 0, do not decrease, and give every
\* cloud floor(count / s) points.
C2_TransitionDownSplits ==
    Returned("TransitionDown") =>
        LET rs == args.pxo.row_splits
            new == res.row_splits
            s == args.cfg.stride
        IN /\ s = 1 => (res.point = args.pxo.point /\ new = rs)
           /\ s > 1 =>
                /\ Len(new) = Len(rs)
                /\ new[1] = 0
                /\ \A i \in 1..NumClouds(rs) :
                      /\ new[i] <= new[i + 1]
                      /\ new[i + 1] - new[i] = Count(rs, i) \div s

\* A stride above 1 on two clouds, one of them of a count the stride does
\* not divide, that leaves points.
C2_Witness ==
    /\ Returned("TransitionDown")
    /\ args.cfg.stride > 1
    /\ NumClouds(args.pxo.row_splits) = 2
    /\ \E i \in 1..2 : Count(args.pxo.row_splits, i) % args.cfg.stride # 0
    /\ Last(res.row_splits) > 0
    /\ Last(res.row_splits) < Last(args.pxo.row_splits)

\* C3: the triple TransitionDown.forward and Bottleneck.forward return has
\* as many point rows as feature rows as the last row split, and the
\* features Transformer.forward and TransitionUp.forward return have one
\* row per point of their level.
C3_PxoRowsAgree ==
    /\ (Returned("TransitionDown") \/ Returned("Bottleneck")) =>
          /\ Len(res.point) = res.feat.n
          /\ res.feat.n = Last(res.row_splits)
    /\ (Returned("Transformer") \/ Returned("TransitionUpHead")
            \/ Returned("TransitionUpFuse")) =>
          /\ res.n = Len(args.pxo.point)
          /\ res.n = Last(args.pxo.row_splits)

C3_Witness ==
    /\ Returned("TransitionDown")
    /\ args.cfg.stride > 1
    /\ Len(res.point) > 0
    /\ Len(res.point) < Len(args.pxo.point)

\* Every cloud of the pxo holds at least nsample points.
CloudsHoldNsample ==
    \A i \in 1..NumClouds(args.pxo.row_splits) :
        Count(args.pxo.row_splits, i) >= args.cfg.nsample

\* C6 as stated: Transformer.forward returns n rows of out_planes channels
\* for every nsample, in_planes, out_planes and share_planes, also when
\* share_planes does not divide out_planes (here: on clouds of at least
\* nsample points, not in training, with out_planes >= share_planes).
C6_AnyChannelConfiguration ==
    (op = "Transformer" /\ CloudsHoldNsample /\ ~args.training
        /\ args.cfg.out_planes >= args.cfg.share_planes) =>
        /\ res.err = "none"
        /\ res.n = Len(args.pxo.point)
        /\ res.ch = args.cfg.out_planes

\* C6, amended: whenever Transformer.forward returns, the features have
\* one row per input point and out_planes channels, and the attention
\* weights are as wide as one of the share_planes channel groups of the
\* values; on a batch that is not empty it returns only if share_planes
\* divides out_planes (and then, on clouds of at least nsample points and
\* not in training, it does return), the weights being
\* out_planes / share_planes wide.
C6_TransformerShape ==
    /\ Returned("Transformer") =>
          /\ res.n = Len(args.pxo.point)
          /\ res.ch = args.cfg.out_planes
          /\ res.w_width = res.group_width
          /\ res.groups = args.cfg.share_planes
          /\ Len(args.pxo.point) > 0 =>
                /\ args.cfg.out_planes % args.cfg.share_planes = 0
                /\ res.w_width * args.cfg.share_planes = args.cfg.out_planes
    /\ (op = "Transformer" /\ CloudsHoldNsample /\ ~args.training
            /\ args.cfg.out_planes % args.cfg.share_planes = 0) =>
          res.err = "none"

\* Two groups of two channels each.
C6_Witness ==
    /\ Returned("Transformer")
    /\ Len(args.pxo.point) > 1
    /\ args.cfg.nsample > 1
    /\ args.cfg.share_planes = 2
    /\ res.group_width = 2

\* C8: with stride > 1 every point TransitionDown.forward returns is a
\* copy of an input point of the same cloud, so the input point of that
\* cloud nearest to it is at its very position.
C8_DownsampledAreInputPoints ==
    (Returned("TransitionDown") /\ args.cfg.stride > 1) =>
        \A j \in 0..(Len(res.point) - 1) :
            LET i == CloudOf(res.row_splits, j)
                rs == args.pxo.row_splits
                cloud == Slice(args.pxo.point, rs[i], rs[i + 1])
            IN /\ \E r \in rs[i]..(rs[i + 1] - 1) :
                     args.pxo.point[r + 1] = res.point[j + 1]
               /\ cloud[Nearest(cloud, res.point[j + 1], <<>>, 1)[1] + 1]
                     = res.point[j + 1]

\* A point sampled from a second cloud whose position no point of the
\* first cloud has.
C8_Witness ==
    /\ Returned("TransitionDown")
    /\ args.cfg.stride > 1
    /\ NumClouds(res.row_splits) = 2
    /\ Count(res.row_splits, 2) > 0
    /\ \A r \in 1..args.pxo.row_splits[2] :
          args.pxo.point[r] # res.point[Len(res.point)]

\* C9: in single-input mode TransitionUp.forward pairs row j of cloud i
\* with a summary of exactly the rows [row_splits[i], row_splits[i+1])
\* divided by that cloud's count, in the input row order, one row per
\* input row, also with an empty cloud in the batch.
C9_HeadSummaryPerCloud ==
    Returned("TransitionUpHead") =>
        LET rs == args.pxo.row_splits
        IN /\ Len(res.rows) = Last(rs)
           /\ res.n = Last(rs)
           /\ \A j \in 0..(Last(rs) - 1) :
                 LET i == CloudOf(rs, j)
                 IN /\ res.rows[j + 1].own = j
                    /\ res.rows[j + 1].rows = rs[i]..(rs[i + 1] - 1)
                    /\ res.rows[j + 1].count = Count(rs, i)

\* An empty cloud ahead of a cloud of several points.
C9_Witness ==
    /\ Returned("TransitionUpHead")
    /\ NumClouds(args.pxo.row_splits) = 2
    /\ Count(args.pxo.row_splits, 1) = 0
    /\ Count(args.pxo.row_splits, 2) > 1


\* The coarse points (0-based rows of pxo2) of the cloud that holds fine
\* point q.
OwnCoarse(q) ==
    LET i == CloudOf(args.pxo.row_splits, q)
    IN args.pxo2.row_splits[i]..(args.pxo2.row_splits[i + 1] - 1)

\* C11: in two-input mode TransitionUp.forward searches the coarse points
\* (pxo2) for the fine points (pxo1), returns one row per fine point, and
\* row q is the projected feature of fine point q plus a feature
\* interpolated only from coarse points of q's own cloud.
C11_FuseFromOwnCloud ==
    Returned("TransitionUpFuse") =>
        /\ res.searched = args.pxo2.row_splits
        /\ res.queried = args.pxo.row_splits
        /\ res.n = Len(args.pxo.point)
        /\ \A q \in 0..(res.n - 1) :
              /\ res.rows[q + 1].own = q
              /\ \A i \in 1..Len(res.rows[q + 1].terms) :
                    res.rows[q + 1].terms[i].src \in OwnCoarse(q)

\* With InterpWidth points or more in every coarse cloud the rows are as
\* C11 says, each interpolated from InterpK coarse points of its cloud.
FuseFromOwnCloudWhenEnough ==
    (/\ op = "TransitionUpFuse"
     /\ \A i \in 1..NumClouds(args.pxo2.row_splits) :
           Count(args.pxo2.row_splits, i) >= InterpWidth) =>
        /\ res.err \in {"none", "ValueError"}
        /\ res.err = "none" =>
              /\ res.n = Len(args.pxo.point)
              /\ \A q \in 0..(res.n - 1) :
                    /\ res.rows[q + 1].own = q
                    /\ Len(res.rows[q + 1].terms) = InterpK
                    /\ \A i \in 1..InterpK :
                          res.rows[q + 1].terms[i].src \in OwnCoarse(q)

----------------------------------------------------------------------------
\* PointTransformer: the network __init__ builds and its forward pass, on
\* shapes.  A level of the pyramid is [np, feat, row_splits].

\* PointTransformer.__init__: planes, share_planes, stride, nsample, the
\* blocks of a decoder stage and the default num_classes.
NetPlanes == <<32, 64, 128, 256, 512>>

SharePlanes == 8

NetStride == <<1, 4, 4, 4, 4>>

NetNsample == <<8, 16, 16, 16, 16>>

DecBlocks == 2

NumClasses == 13

NumStages == Len(NetPlanes)

\* A stage left without blocks after its transition.
BlocksNone(in_planes, blocks, nsample) == <<>>

\* The blocks a stage appends after its transition: range(1, blocks)
Blocks(in_planes, blocks, nsample) ==
    [j \in 1..(blocks - 1) |->
        [type |-> "Bottleneck",
         cfg |-> [in_planes |-> in_planes, planes |-> in_planes,
                  share_planes |-> SharePlanes, nsample |-> nsample]]]

\* _make_enc(block, planes, blocks, share_planes, stride, nsample) with
\* self.in_planes = in_planes: the layers and self.in_planes afterwards.
MakeEnc(in_planes, planes, blocks, stride, nsample) ==
    [layers |-> <<[type |-> "TransitionDown",
                   cfg |-> [in_planes |-> in_planes,
                            out_planes |-> planes * Expansion,
                            stride |-> stride, nsample |-> nsample]]>>
                \o Blocks(planes * Expansion, blocks, nsample),
     in_planes |-> planes * Expansion]

\* _make_dec that leaves self.in_planes as it finds it.
MakeDecKeep(in_planes, planes, blocks, nsample, is_head) ==
    [layers |-> <<[type |-> "TransitionUp",
                   cfg |-> [in_planes |-> in_planes,
                            out_planes |-> IF is_head THEN 0
                                           ELSE planes * Expansion,
                            is_head |-> is_head]]>>
                \o Blocks(planes * Expansion, blocks, nsample),
     in_planes |-> in_planes]

\* _make_dec(block, planes, blocks, share_planes, nsample, is_head) with
\* self.in_planes = in_planes; out_planes 0 stands for None.
MakeDec(in_planes, planes, blocks, nsample, is_head) ==
    [layers |-> <<[type |-> "TransitionUp",
                   cfg |-> [in_planes |-> in_planes,
                            out_planes |-> IF is_head THEN 0
                                           ELSE planes * Expansion,
                            is_head |-> is_head]]>>
                \o Blocks(planes * Expansion, blocks, nsample),
     in_planes |-> planes * Expansion]

\* The encoder stages enc1..l built in order, self.in_planes threaded
\* through them.
RECURSIVE MakeEncs(_, _, _)
MakeEncs(c, blocks, l) ==
    IF l = 0 THEN [stages |-> <<>>, in_planes |-> c]
    ELSE LET before == MakeEncs(c, blocks, l - 1)
             e == MakeEnc(before.in_planes, NetPlanes[l], blocks[l],
                          NetStride[l], NetNsample[l])
         IN [stages |-> Append(before.stages, e.layers),
             in_planes |-> e.in_planes]

\* The decoder stages dec5..l built in order after the encoders; stages[j]
\* is the stage of level NumStages + 1 - j.
RECURSIVE MakeDecs(_, _)
MakeDecs(in_planes, l) ==
    IF l > NumStages THEN [stages |-> <<>>, in_planes |-> in_planes]
    ELSE LET before == MakeDecs(in_planes, l + 1)
             d == MakeDec(before.in_planes, NetPlanes[l], DecBlocks,
                          NetNsample[l], l = NumStages)
         IN [stages |-> Append(before.stages, d.layers),
             in_planes |-> d.in_planes]

\* PointTransformer.__init__(blocks, c, num_classes)
PointTransformer(blocks, c, num_classes) ==
    LET encs == MakeEncs(c, blocks, NumStages)
        decs == MakeDecs(encs.in_planes, 1)
    IN [c |-> c, num_classes |-> num_classes, blocks |-> blocks,
        enc |-> encs.stages,
        dec |-> [l \in 1..NumStages |-> decs.stages[NumStages + 1 - l]],
        cls |-> [in |-> NetPlanes[1], out |-> num_classes]]


\* A layer of an nn.Sequential, TransitionDown or Bottleneck, on a pxo
Layer(h, x, training, emptyRaises) ==
    IF h.type = "TransitionDown"
    THEN TransitionDownShape(h.cfg, x.np, x.feat, x.row_splits,
                             training, emptyRaises)
    ELSE LET f == BottleneckFeat(h.cfg, x.np, x.feat, x.row_splits,
                                 training, emptyRaises)
         IN IF f.err # "none" THEN f
            ELSE [x EXCEPT !.feat = Feat(f.n, f.k, f.ch)]

\* forward: feat_0, the input of enc1, for a batch of n points whose
\* features have fc channels.
NetInput(c, n, fc) == Feat(n, 1, IF c = 3 THEN 3 ELSE 3 + fc)

\* forward: self.decL[0](...), called on level 5 alone for dec5 and on
\* level L and, as pxo2, level L + 1 for the others; the result takes the
\* place of the features in [point_L, ..., row_splits_L].
DecUp(model, l, lv, training, emptyRaises) ==
    LET up == model.dec[l][1]
        cur == lv[l]
        t == IF l = NumStages
             THEN TransitionUpHeadShape(up.cfg, cur.feat, cur.row_splits,
                                        training)
             ELSE TransitionUpFuse(up.cfg, cur.np, cur.feat, cur.row_splits,
                                   lv[l + 1].feat, lv[l + 1].row_splits,
                                   training, emptyRaises)
    IN IF t.err # "none" THEN t
       ELSE [cur EXCEPT !.feat = Feat(t.n, t.k, t.ch)]

\* self.cls: Linear, BatchNorm1d, ReLU, Linear
Cls(model, feat, training) ==
    Linear(BatchNorm1d(Linear(feat, model.cls.in, model.cls.in),
                       model.cls.in, training),
           model.cls.in, model.cls.out)


----------------------------------------------------------------------------
\* The forward pass checked: a model is built, a batch is given, and
\* forward runs its statements in order.  fw.lv[l] holds point_l, feat_l
\* and row_splits_l once assigned; a raised error ends the pass.

MaxBlocks == 2

\* The points of the smallest cloud that leaves nsample points on the
\* deepest level.
RECURSIVE StrideProduct(_)
StrideProduct(l) == IF l = 0 THEN 1 ELSE NetStride[l] * StrideProduct(l - 1)

FullCloud == NetNsample[NumStages] * StrideProduct(NumStages)

\* The clouds of the batches tried.
NetCounts == {0, 1, 6, 10, FullCloud - 1, FullCloud, 2 * FullCloud}

RECURSIVE SplitsOf(_)
SplitsOf(counts) ==
    IF Len(counts) = 0 THEN <<0>>
    ELSE LET before == SplitsOf(SubSeq(counts, 1, Len(counts) - 1))
         IN Append(before, before[Len(before)] + counts[Len(counts)])

NetRowSplits ==
    {SplitsOf(counts) : counts \in UNION {[1..b -> NetCounts] : b \in 1..MaxClouds}}

BlockChoices == {[l \in 1..NumStages |-> b] : b \in 1..MaxBlocks}

EncPc == <<"enc1", "enc2", "enc3", "enc4", "enc5">>

DecPc == <<"dec1", "dec2", "dec3", "dec4", "dec5">>

\* The batch as forward reads it: batch.feat has c - 3 channels.
Batch0(c) ==
    LET n == row_splits[Len(row_splits)]
    IN [err |-> "none", np |-> n, feat |-> NetInput(c, n, c - 3),
        row_splits |-> row_splits]

\* fw.x is the pxo passing through the layers of the stage fw.pc, fw.i
\* the layer it comes to next.  fw.lv[l].by names the statement that
\* assigned feat_l last, and fw.log lists, statement by statement, what
\* forward passed to a stage: the features (by the statement that made
\* them) and row splits of its first argument and, for a decoder stage
\* called on two levels, of its second.  fw.searches lists the neighbour
\* searches of the layers entered so far.
InitNet ==
    /\ row_splits \in NetRowSplits
    /\ point = <<>>
    /\ op = "init"
    /\ args = [k |-> 0]
    /\ res = [err |-> "none"]
    /\ \E blocks \in BlockChoices, c \in {3, DefaultC},
          training \in BOOLEAN, emptyRaises \in BOOLEAN :
          /\ net = [model |-> PointTransformer(blocks, c, NumClasses),
                    training |-> training, emptyRaises |-> emptyRaises]
          /\ fw = [pc |-> EncPc[1], i |-> 1, x |-> Batch0(c), err |-> "none",
                   lv |-> <<>>, out |-> Feat(0, 0, 0), log |-> <<>>,
                   searches |-> <<>>]

Raised(e) == [fw EXCEPT !.pc = "raised", !.err = e]

\* What a statement of forward passes on: [point, feat, row_splits] of
\* one level, or of two.
Passed(stage, by, rs) ==
    [stage |-> stage, feat |-> by, rs |-> rs, feat2 |-> "none", rs2 |-> <<>>]

Passed2(stage, by, rs, by2, rs2) ==
    [stage |-> stage, feat |-> by, rs |-> rs, feat2 |-> by2, rs2 |-> rs2]

\* point_l, feat_l, row_splits_l = ...
EncAssign(lv, l, y) ==
    Append(lv, [err |-> "none", np |-> y.np, feat |-> y.feat,
                row_splits |-> y.row_splits, by |-> EncPc[l]])

\* The decoded features dropped instead of assigned.
DecAssignNone(lv, l, y) == lv

\* feat_l = ...
DecAssign(lv, l, y) == [lv EXCEPT ![l].feat = y.feat, ![l].by = DecPc[l]]

\* What self.encl is called on.
EncInput(l) ==
    IF l = 1 THEN fw.x
    ELSE [err |-> "none", np |-> fw.lv[l - 1].np, feat |-> fw.lv[l - 1].feat,
          row_splits |-> fw.lv[l - 1].row_splits]

\* The neighbour searches of a layer on a level of row splits rs, k
\* neighbours asked of the clouds of prs: TransitionDown with a stride
\* searches the level it is given once, the Transformer of a Bottleneck
\* its level twice (feat_k, feat_v).
LayerSearches(h, rs) ==
    LET search == [k |-> h.cfg.nsample, prs |-> rs]
    IN IF h.type = "TransitionDown"
       THEN IF h.cfg.stride # 1 THEN <<search>> ELSE <<>>
       ELSE <<search, search>>

\* The neighbour search of a TransitionUp: none on one level, and on two
\* the interpolation's search of the second.
UpSearches(h, rs2) ==
    IF h.cfg.is_head THEN <<>> ELSE <<[k |-> InterpK, prs |-> rs2]>>

EncLog(l) ==
    IF fw.i # 1 THEN fw.log
    ELSE Append(fw.log,
                Passed(EncPc[l], IF l = 1 THEN "batch" ELSE fw.lv[l - 1].by,
                       EncInput(l).row_splits))

DecLog(l) ==
    IF fw.i # 1 THEN fw.log
    ELSE Append(fw.log,
                IF l = NumStages
                THEN Passed(DecPc[l], fw.lv[l].by, fw.lv[l].row_splits)
                ELSE Passed2(DecPc[l], fw.lv[l].by, fw.lv[l].row_splits,
                             fw.lv[l + 1].by, fw.lv[l + 1].row_splits))

\* point_l, feat_l, row_splits_l = self.encl([...]): the next layer of
\* encl, and after the last one the assignment.
Enc(l) ==
    /\ fw.pc = EncPc[l]
    /\ \E y \in {Layer(net.model.enc[l][fw.i],
                       IF fw.i = 1 THEN EncInput(l) ELSE fw.x,
                       net.training, net.emptyRaises)} :
          fw' = [IF y.err # "none" THEN Raised(y.err)
                 ELSE IF fw.i < Len(net.model.enc[l])
                 THEN [fw EXCEPT !.i = @ + 1, !.x = y]
                 ELSE [fw EXCEPT !.lv = EncAssign(@, l, y), !.x = y, !.i = 1,
                                 !.pc = IF l < NumStages THEN EncPc[l + 1]
                                        ELSE DecPc[NumStages]]
                EXCEPT !.log = EncLog(l),
                       !.searches = fw.searches \o LayerSearches(
                           net.model.enc[l][fw.i],
                           IF fw.i = 1 THEN EncInput(l).row_splits
                           ELSE fw.x.row_splits)]
    /\ UNCHANGED <<point, row_splits, op, args, res, net>>

\* feat_l = self.decl[1:]([point_l, self.decl[0](...), row_splits_l])[1]:
\* decl[0], then the next layer of decl[1:], and after the last one the
\* assignment.
Dec(l) ==
    /\ fw.pc = DecPc[l]
    /\ \E y \in {IF fw.i = 1
                 THEN DecUp(net.model, l, fw.lv, net.training,
                            net.emptyRaises)
                 ELSE Layer(net.model.dec[l][fw.i], fw.x, net.training,
                            net.emptyRaises)} :
          fw' = [IF y.err # "none" THEN Raised(y.err)
                 ELSE IF fw.i < Len(net.model.dec[l])
                 THEN [fw EXCEPT !.i = @ + 1, !.x = y]
                 ELSE [fw EXCEPT !.lv = DecAssign(@, l, y), !.x = y, !.i = 1,
                                 !.pc = IF l > 1 THEN DecPc[l - 1] ELSE "cls"]
                EXCEPT !.log = DecLog(l),
                       !.searches = fw.searches \o
                           IF fw.i = 1
                           THEN UpSearches(net.model.dec[l][1],
                                    IF l = NumStages THEN <<>>
                                    ELSE fw.lv[l + 1].row_splits)
                           ELSE LayerSearches(net.model.dec[l][fw.i],
                                              fw.x.row_splits)]
    /\ UNCHANGED <<point, row_splits, op, args, res, net>>

\* feat = self.cls(feat_1); return feat
Classify ==
    /\ fw.pc = "cls"
    /\ \E y \in {Cls(net.model, fw.lv[1].feat, net.training)} :
          fw' = [IF y.err # "none" THEN Raised(y.err)
                 ELSE [fw EXCEPT !.out = y, !.pc = "done"]
                EXCEPT !.log = Append(@, Passed("cls", fw.lv[1].by,
                                                fw.lv[1].row_splits))]
    /\ UNCHANGED <<point, row_splits, op, args, res, net>>

NextNet ==
    \/ \E l \in 1..NumStages : Enc(l)
    \/ \E l \in 1..NumStages : Dec(l)
    \/ Classify

SpecNet == InitNet /\ [][NextNet]_vars

----------------------------------------------------------------------------
\* Claims about the forward pass.

\* The batch of two clouds with 10 and 6 points.
TwoSmallClouds == row_splits = SplitsOf(<<10, 6>>)

\* C5.  PointTransformer.forward completes on every batch, the batch
\* row_splits = [0, 10, 16] included, and returns logits with n rows and
\* num_classes columns (here: on that batch, with the default blocks and
\* c, forward raises nothing and what it returns is 16 x num_classes).
C5_ForwardCompletes ==
    (/\ TwoSmallClouds
     /\ net.model.blocks = [l \in 1..NumStages |-> 2]
     /\ net.model.c = DefaultC) =>
        /\ fw.pc # "raised"
        /\ fw.pc = "done" =>
              /\ fw.out.n = row_splits[Len(row_splits)]
              /\ fw.out.ch = net.model.num_classes

\* A batch of clouds of FullCloud points or more goes through to the
\* logits, one row per point.
FullCloudsComplete ==
    (\A i \in 1..NumClouds(row_splits) : Count(row_splits, i) >= FullCloud)
        => /\ fw.pc # "raised"
           /\ fw.pc = "done" =>
                 /\ fw.out.n = row_splits[Len(row_splits)]
                 /\ fw.out.k = 1
                 /\ fw.out.ch = net.model.num_classes


\* row_splits_l: the row splits of level l, level 0 being the batch.
RECURSIVE LevelSplits(_)
LevelSplits(l) ==
    IF l = 0 THEN row_splits
    ELSE IF NetStride[l] = 1 THEN LevelSplits(l - 1)
    ELSE NewRowSplits(LevelSplits(l - 1), NetStride[l])

\* The statements of a whole forward pass, first to last, with what each
\* is to pass on: encoder stage l the level before it, decoder stage 5
\* level 5 as the encoder left it, decoder stage l < 5 level l as the
\* encoder left it and level l + 1 with the features of decoder stage
\* l + 1, the classifier the features of decoder stage 1.
StageOrder ==
    [l \in 1..NumStages |->
        Passed(EncPc[l], IF l = 1 THEN "batch" ELSE EncPc[l - 1],
               LevelSplits(l - 1))]
    \o [j \in 1..NumStages |->
          LET l == NumStages + 1 - j
          IN IF l = NumStages
             THEN Passed(DecPc[l], EncPc[l], LevelSplits(l))
             ELSE Passed2(DecPc[l], EncPc[l], LevelSplits(l),
                          DecPc[l + 1], LevelSplits(l + 1))]
    \o <<Passed("cls", DecPc[1], LevelSplits(1))>>

\* C12: forward runs encoder stages 1..5, each on the level the stage
\* before it returned, then decoder stages 5..1, stage 5 on encoder level
\* 5 alone and stage l < 5 on encoder level l and on level l + 1 with the
\* features decoder stage l + 1 produced, and the classifier on the
\* features of decoder stage 1: what has run so far is always a prefix of
\* that order, and all of it when forward returns.
C12_StageOrder ==
    \E order \in {StageOrder} :
       /\ Len(fw.log) <= Len(order)
       /\ fw.log = SubSeq(order, 1, Len(fw.log))
       /\ fw.pc = "done" => Len(fw.log) = Len(order)

\* A pass over two clouds that has returned.
C12_Witness ==
    /\ fw.pc = "done"
    /\ NumClouds(row_splits) = 2
    /\ Len(fw.log) = 2 * NumStages + 1
    /\ fw.log[NumStages + 2].feat2 = DecPc[NumStages]


\* A search that asks no cloud for more neighbours than it holds.
Sufficient(search) ==
    \A i \in 1..NumClouds(search.prs) : Count(search.prs, i) >= search.k

\* The neighbour searches of a whole forward pass, in order: those of the
\* layers of enc1..enc5, the first layer of a stage on the level before
\* it and the others on the stage's own, then those of dec5..dec1, the
\* TransitionUp on the level below and the others on the stage's own.
PassSearches ==
    Flatten([l \in 1..NumStages |->
        Flatten([i \in 1..Len(net.model.enc[l]) |->
            LayerSearches(net.model.enc[l][i],
                          IF i = 1 THEN LevelSplits(l - 1)
                          ELSE LevelSplits(l))])])
    \o Flatten([j \in 1..NumStages |->
        LET l == NumStages + 1 - j
        IN Flatten([i \in 1..Len(net.model.dec[l]) |->
              IF i = 1
              THEN UpSearches(net.model.dec[l][1],
                              IF l = NumStages THEN <<>>
                              ELSE LevelSplits(l + 1))
              ELSE LayerSearches(net.model.dec[l][i], LevelSplits(l))])])

\* C14: with strides [1, 4, 4, 4, 4] and neighbour counts
\* [8, 16, 16, 16, 16] every neighbour search of the forward pass (of the
\* TransitionDowns, of the Transformers, of the 3-neighbour
\* interpolations) asks no cloud for more neighbours than it holds if and
\* only if every cloud of the batch has at least 4096 points, and a cloud
\* of fewer points is, on some level, searched for more neighbours than it
\* holds there.  The searches forward makes are those of the pass, in
\* order, all of them when it returns.
C14_SearchesFitFromFullClouds ==
    \E pass \in {PassSearches} :
       /\ Len(fw.searches) <= Len(pass)
       /\ fw.searches = SubSeq(pass, 1, Len(fw.searches))
       /\ fw.pc = "done" => fw.searches = pass
       /\ (\A n \in 1..Len(pass) : Sufficient(pass[n]))
             <=> (\A i \in 1..NumClouds(row_splits) :
                     Count(row_splits, i) >= 4096)
       /\ \A i \in 1..NumClouds(row_splits) :
             Count(row_splits, i) < 4096 =>
                \E n \in 1..Len(pass) :
                   /\ \E l \in 1..NumStages : pass[n].prs = LevelSplits(l)
                   /\ Count(pass[n].prs, i) < pass[n].k

\* A pass on a cloud one point short of 4096 that ran every search down
\* to the deepest level and raised on the first that asked too much.
C14_Witness ==
    /\ \E i \in 1..NumClouds(row_splits) : Count(row_splits, i) = 4095
    /\ fw.pc = "raised"
    /\ Len(fw.searches) > 1
    /\ ~Sufficient(fw.searches[Len(fw.searches)])
    /\ fw.searches[Len(fw.searches)].prs = LevelSplits(NumStages)
    /\ \A n \in 1..(Len(fw.searches) - 2) : Sufficient(fw.searches[n])

\* The threshold is that of the strides and neighbour counts, and below a
\* product of the strides' worth of points a cloud has no point left on
\* the deepest level.
FullCloudIsThreshold ==
    /\ FullCloud = 4096
    /\ \A i \in 1..NumClouds(row_splits) :
          Count(row_splits, i) < StrideProduct(NumStages) =>
             Count(LevelSplits(NumStages), i) = 0

----------------------------------------------------------------------------
\* PointTransformer.__init__ checked statement by statement: net.in_planes
\* is self.in_planes, net.enc the encoder stages built so far (enc1
\* first), net.dec the decoder stages built so far (dec5 first).

\* The blocks lists tried: any number of blocks up to MaxBlocks per
\* stage, none included.
BlockLists == [1..NumStages -> 0..MaxBlocks]

InitBuild ==
    /\ row_splits = <<0>>
    /\ point = <<>>
    /\ op = "init"
    /\ args = [k |-> 0]
    /\ res = [err |-> "none"]
    /\ fw = [pc |-> "idle"]
    /\ \E blocks \in BlockLists, c \in {3, DefaultC} :
          net = [pc |-> EncPc[1], c |-> c, num_classes |-> NumClasses,
                 blocks |-> blocks, in_planes |-> c, enc |-> <<>>,
                 dec |-> <<>>, cls |-> [in |-> 0, out |-> 0]]

\* self.encl = self._make_enc(block, planes[l-1], blocks[l-1], ...)
BuildEnc(l) ==
    /\ net.pc = EncPc[l]
    /\ \E e \in {MakeEnc(net.in_planes, NetPlanes[l], net.blocks[l],
                         NetStride[l], NetNsample[l])} :
          net' = [net EXCEPT !.enc = Append(@, e.layers),
                             !.in_planes = e.in_planes,
                             !.pc = IF l < NumStages THEN EncPc[l + 1]
                                    ELSE DecPc[NumStages]]
    /\ UNCHANGED <<point, row_splits, op, args, res, fw>>

\* self.decl = self._make_dec(block, planes[l-1], 2, ..., is_head)
BuildDec(l) ==
    /\ net.pc = DecPc[l]
    /\ \E d \in {MakeDec(net.in_planes, NetPlanes[l], DecBlocks,
                         NetNsample[l], l = NumStages)} :
          net' = [net EXCEPT !.dec = Append(@, d.layers),
                             !.in_planes = d.in_planes,
                             !.pc = IF l > 1 THEN DecPc[l - 1] ELSE "cls"]
    /\ UNCHANGED <<point, row_splits, op, args, res, fw>>

\* self.cls = nn.Sequential(nn.Linear(planes[0], planes[0]), ...,
\* nn.Linear(planes[0], num_classes))
BuildCls ==
    /\ net.pc = "cls"
    /\ net' = [net EXCEPT !.cls = [in |-> NetPlanes[1],
                                   out |-> net.num_classes],
                          !.pc = "built"]
    /\ UNCHANGED <<point, row_splits, op, args, res, fw>>

NextBuild ==
    \/ \E l \in 1..NumStages : BuildEnc(l)
    \/ \E l \in 1..NumStages : BuildDec(l)
    \/ BuildCls

SpecBuild == InitBuild /\ [][NextBuild]_vars


----------------------------------------------------------------------------
\* Claims about __init__.

\* The width of the features a layer is built to take: the in of
\* TransitionDown's linear (less the 3 of the grouped positions) and of
\* Bottleneck's linear1.
LayerIn(h) == h.cfg.in_planes

\* The width of the features a layer returns: the out of TransitionDown's
\* linear, of Bottleneck's linear3 and of TransitionUp's linear1.
LayerOut(h) ==
    CASE h.type = "TransitionDown" -> h.cfg.out_planes
      [] h.type = "Bottleneck" -> h.cfg.planes * Expansion
      [] h.type = "TransitionUp" ->
            IF h.cfg.is_head THEN h.cfg.in_planes ELSE h.cfg.out_planes

StageOut(layers) == LayerOut(layers[Len(layers)])

\* The layers after the first are Bottlenecks, each built for the width
\* the layer before it returns and returning the width it takes (feat +=
\* identity).
BlocksFit(layers) ==
    \A i \in 2..Len(layers) :
        /\ layers[i].type = "Bottleneck"
        /\ LayerIn(layers[i]) = LayerOut(layers[i - 1])
        /\ LayerOut(layers[i]) = LayerIn(layers[i])

\* The level of the j-th decoder stage built.
DecLevel(j) == NumStages + 1 - j

\* C13: __init__ threads self.in_planes through _make_enc and _make_dec
\* so that, for every blocks list, each encoder TransitionDown takes the
\* width the stage before it returns (c for the first), each decoder
\* TransitionUp takes the width of its encoder level for the fine
\* features and the width the decoder stage before it returns for the
\* coarse ones, every Bottleneck returns the width it takes, and the
\* classifier takes the width decoder stage 1 returns.  It holds of the
\* stages built so far at every statement of __init__.
C13_WidthsThread ==
    /\ \A l \in 1..Len(net.enc) :
          /\ net.enc[l][1].type = "TransitionDown"
          /\ LayerIn(net.enc[l][1]) =
                IF l = 1 THEN net.c ELSE StageOut(net.enc[l - 1])
          /\ BlocksFit(net.enc[l])
          /\ Len(net.enc[l]) = IF net.blocks[l] = 0 THEN 1 ELSE net.blocks[l]
    /\ \A j \in 1..Len(net.dec) :
          LET up == net.dec[j][1]
          IN /\ up.type = "TransitionUp"
             /\ up.cfg.is_head = (j = 1)
             /\ IF j = 1
                THEN up.cfg.in_planes = StageOut(net.enc[DecLevel(j)])
                ELSE /\ up.cfg.out_planes = StageOut(net.enc[DecLevel(j)])
                     /\ up.cfg.in_planes = StageOut(net.dec[j - 1])
             /\ BlocksFit(net.dec[j])
    /\ net.pc = "built" =>
          /\ Len(net.enc) = NumStages
          /\ Len(net.dec) = NumStages
          /\ net.cls.in = StageOut(net.dec[NumStages])
          /\ net.cls.out = net.num_classes

\* A model built from a blocks list with a stage of no block and a stage
\* of MaxBlocks.
C13_Witness ==
    /\ net.pc = "built"
    /\ net.c = DefaultC
    /\ net.blocks[1] = 0
    /\ net.blocks[NumStages] = MaxBlocks
    /\ Len(net.enc[NumStages]) = MaxBlocks

\* The model the statements of __init__ build is the one the forward pass
\* is checked on.
BuiltIsPointTransformer ==
    net.pc = "built" =>
        LET model == PointTransformer(net.blocks, net.c, net.num_classes)
        IN /\ net.enc = model.enc
           /\ \A l \in 1..NumStages : net.dec[DecLevel(l)] = model.dec[l]
           /\ net.cls = model.cls

====
